---- MODULE Spec2Model ----
(***************************************************************************)
(* Model of the playback / progress controller and of the library tree    *)
(* builder (fetchMusic, under TreeSpec) of bin/index.js.                   *)
(*                                                                         *)
(* The program is a single-threaded event loop.  Each action below is one  *)
(* event-loop callback, run to completion:                                 *)
(*   PlaySong  - tree 'select' on a song node: playSong(file), the spawn   *)
(*               'error' event it may queue, and the continuation after    *)
(*               the await (songDuration assignment, startProgressBar)     *)
(*   KeyP      - one press of the p key: both registered listeners         *)
(*   Tick      - one firing of an interval created by startProgressBar     *)
(*   ProcExit  - the 'exit' event of a spawned player process              *)
(*                                                                         *)
(* Numbers that need not be integers (songDuration, percent) are kept as   *)
(* exact fractions <<numerator, denominator>>; <<0, 0>> stands for NaN.    *)
(***************************************************************************)
EXTENDS Integers, Sequences, FiniteSets, TLC

\* ---- bounds ------------------------------------------------------------
MaxPlays == 2      \* spawned player processes per behaviour
MaxElapsed == 4    \* ticks are no longer taken once elapsedTime reaches this

\* ---- inputs ------------------------------------------------------------
Tracks == {"a.mp3", "b.mp3"}

NaN == <<0, 0>>
Durations == {<<0, 1>>, <<2, 1>>, <<7, 5>>}     \* 0 s, 2 s, 1.4 s

\* what spawnSync('ffprobe') hands back: either result.stdout is null (the
\* .toString() throws) or parseFloat of the text gives a number or NaN
ProbeResults ==
    {[threw |-> TRUE, parsed |-> NaN]}
      \cup {[threw |-> FALSE, parsed |-> d] : d \in Durations \cup {NaN}}

\* spawn('ffplay'): a running child, a child that emits 'error' (ENOENT...),
\* or a synchronous throw
SpawnResults == {"ok", "error", "throw"}

ExitStatuses == {"code0", "codeN", "signal"}

\* ---- the program's state -----------------------------------------------
VARIABLES
    currentAudio,         \* 0 = null, else the id of a spawned child
    isPlaying,
    progressBarInterval,  \* 0 = null, else a timer id
    songDuration,         \* fraction
    elapsedTime,
    procs,                \* children spawned so far, by id
    timers,               \* ids of the intervals that are alive
    percent,              \* what the gauge shows (fraction)
    recordbox,            \* content of the record box
    probed,               \* did the last duration probe give a number (history)
    last,                 \* what the last callback did (history)
    data,                 \* fetchMusic: the list the server answered with
    treeData,             \* fetchMusic: what tree.setData was given
    fetched               \* fetchMusic: "pending", "set" or "caught"

playerVars == <<currentAudio, isPlaying, progressBarInterval, songDuration,
                elapsedTime, procs, timers, percent, recordbox, probed, last>>

treeVars == <<data, treeData, fetched>>

vars == <<playerVars, treeVars>>

\* ---- fractions ---------------------------------------------------------
isNaN(d) == d[2] = 0

\* songDuration > 0  (false for NaN)
Positive(d) == d[2] > 0 /\ d[1] > 0

\* elapsedTime >= songDuration
ReachedEnd(e, d) == e * d[2] >= d[1]

RatEq(p, q) == p[1] * q[2] = q[1] * p[2]

RatLeq(p, q) == p[1] * q[2] <= q[1] * p[2]

\* ---- notifications -----------------------------------------------------
Note(kind, track) == [kind |-> kind, track |-> track]

NoCall == [fn |-> "none", pid |-> 0, sig |-> "none"]

KillCall(p, sig) == [fn |-> "kill", pid |-> p, sig |-> sig]

SpawnCall(p) == [fn |-> "spawn", pid |-> p, sig |-> "none"]

Last(op) ==
    [op |-> op, track |-> "", spawn |-> "none", pid |-> 0, status |-> "none",
     probeOk |-> TRUE, timer |-> 0, pushed |-> FALSE, calls |-> <<>>, emits |-> <<>>,
     toggles |-> <<>>]

\* ---- child processes ---------------------------------------------------
Alive(ps, p) == ps[p].state \in {"running", "stopped"}

\* ChildProcess.kill(sig): nothing is delivered once the handle is gone
Kill(ps, p, sig) ==
    IF ~Alive(ps, p) THEN ps
    ELSE IF sig = "SIGTERM" THEN [ps EXCEPT ![p].term = TRUE]
    ELSE IF sig = "SIGSTOP" THEN [ps EXCEPT ![p].state = "stopped"]
    ELSE [ps EXCEPT ![p].state = "running"]

Init ==
    /\ currentAudio = 0
    /\ isPlaying = FALSE
    /\ progressBarInterval = 0
    /\ songDuration = <<0, 1>>
    /\ elapsedTime = 0
    /\ procs = <<>>
    /\ timers = {}
    /\ percent = <<0, 1>>
    /\ recordbox = Note("albumInfo", "")
    /\ probed = TRUE
    /\ last = Last("init")
    /\ data = <<>>
    /\ treeData = <<>>
    /\ fetched = "pending"

\* ---- getSongDuration ---------------------------------------------------
\* a getSongDuration without the isNaN test
getSongDuration_noNaNTest(probe) ==
    IF probe.threw THEN <<0, 1>> ELSE probe.parsed

getSongDuration(probe) ==
    IF probe.threw THEN <<0, 1>>
    ELSE IF isNaN(probe.parsed) THEN <<0, 1>> ELSE probe.parsed

\* did the probe give a number?
ProbeOk(probe) == ~probe.threw /\ ~isNaN(probe.parsed)

\* ---- playSong, run from the tree's 'select' handler ---------------------
\* a playSong that spawns the new player before it kills the old one
PlayCalls_spawnFirst(old, new) ==
    <<SpawnCall(new)>>
      \o (IF old # 0 THEN <<KillCall(old, "SIGTERM")>> ELSE <<>>)

\* the calls playSong makes on child processes, in program order
PlayCalls(old, new) ==
    (IF old # 0 THEN <<KillCall(old, "SIGTERM")>> ELSE <<>>)
      \o <<SpawnCall(new)>>

PlaySong(t, res, probe) ==
    LET old == currentAudio
        new == Len(procs) + 1
        killed == IF old # 0 THEN Kill(procs, old, "SIGTERM") ELSE procs
    IN  /\ Len(procs) < MaxPlays
        /\ UNCHANGED treeVars
        /\ IF res = "throw"
           THEN /\ procs' = killed
                /\ recordbox' = Note("Now playing", t)
                /\ last' = [Last("play") EXCEPT
                              !.track = t, !.spawn = res,
                              !.calls = PlayCalls(old, 0),
                              !.emits = <<Note("Error fetching", t),
                                          Note("Now playing", t)>>]
                /\ UNCHANGED <<currentAudio, isPlaying, progressBarInterval,
                               songDuration, elapsedTime, timers, percent,
                               probed>>
           ELSE /\ procs' = Append(killed,
                      [state |-> IF res = "ok" THEN "running" ELSE "failed",
                       track |-> t, term |-> FALSE])
                /\ probed' = ProbeOk(probe)
                /\ currentAudio' = new
                /\ isPlaying' = TRUE
                /\ elapsedTime' = 0
                /\ songDuration' = getSongDuration(probe)
                /\ percent' = <<0, 1>>
                /\ timers' = timers \cup {new}
                /\ progressBarInterval' = new
                /\ recordbox' = IF res = "error" THEN Note("Error playing", t)
                                ELSE Note("Now playing", t)
                /\ last' = [Last("play") EXCEPT
                              !.track = t, !.spawn = res, !.pid = new,
                              !.timer = new,
                              !.calls = PlayCalls(old, new),
                              !.probeOk = ProbeOk(probe),
                              !.emits = <<Note("Now playing", t),
                                          Note("Now playing", t)>>
                                        \o (IF res = "error"
                                            THEN <<Note("Error playing", t)>>
                                            ELSE <<>>)]

\* ---- togglePlayPause ---------------------------------------------------
\* a togglePlayPause whose test of currentAudio is missing: it flips the
\* flag and signals even when there is no handle
togglePlayPause_noHandleTest(s) ==
    IF s.playing
    THEN [cur |-> s.cur, playing |-> FALSE, ps |-> s.ps,
          call |-> KillCall(s.cur, "SIGSTOP"), emit |-> Note("Paused", "")]
    ELSE [cur |-> s.cur, playing |-> TRUE, ps |-> s.ps,
          call |-> KillCall(s.cur, "SIGCONT"),
          emit |-> Note("Playing...", "")]

\* a togglePlayPause that sends the two signals the wrong way round
togglePlayPause_swappedSignals(s) ==
    IF s.cur # 0
    THEN IF s.playing
         THEN [cur |-> s.cur, playing |-> FALSE,
               ps |-> Kill(s.ps, s.cur, "SIGCONT"),
               call |-> KillCall(s.cur, "SIGCONT"),
               emit |-> Note("Paused", "")]
         ELSE [cur |-> s.cur, playing |-> TRUE,
               ps |-> Kill(s.ps, s.cur, "SIGSTOP"),
               call |-> KillCall(s.cur, "SIGSTOP"),
               emit |-> Note("Playing...", "")]
    ELSE [cur |-> s.cur, playing |-> s.playing, ps |-> s.ps,
          call |-> NoCall, emit |-> Note("No audio playing", "")]

\* One call of togglePlayPause() on the session state s = [cur, playing, ps]:
\* the state after it, the kill call it made and what it put in the record box.
togglePlayPause(s) ==
    IF s.cur # 0
    THEN IF s.playing
         THEN [cur |-> s.cur, playing |-> FALSE,
               ps |-> Kill(s.ps, s.cur, "SIGSTOP"),
               call |-> KillCall(s.cur, "SIGSTOP"),
               emit |-> Note("Paused", "")]
         ELSE [cur |-> s.cur, playing |-> TRUE,
               ps |-> Kill(s.ps, s.cur, "SIGCONT"),
               call |-> KillCall(s.cur, "SIGCONT"),
               emit |-> Note("Playing...", "")]
    ELSE [cur |-> s.cur, playing |-> s.playing, ps |-> s.ps,
          call |-> NoCall, emit |-> Note("No audio playing", "")]

\* the record of one togglePlayPause() call kept in last.toggles
ToggleRecord(s, r) ==
    [cur |-> s.cur, before |-> s.playing, after |-> r.playing,
     alive |-> (s.cur # 0 /\ Alive(s.ps, s.cur)),
     call |-> r.call, emit |-> r.emit]

\* what each of the two 'p' listeners writes after togglePlayPause()
StatusNote(playing) ==
    IF playing THEN Note("Playing...", "") ELSE Note("Paused", "")

\* ---- one press of p: the listeners of lines 133 and 385, in that order --
KeyP ==
    LET s0 == [cur |-> currentAudio, playing |-> isPlaying, ps |-> procs]
        r1 == togglePlayPause(s0)
        r2 == togglePlayPause(r1)
    IN  /\ isPlaying' = r2.playing
        /\ procs' = r2.ps
        /\ recordbox' = StatusNote(r2.playing)
        /\ last' = [Last("keyP") EXCEPT
                      !.calls = SelectSeq(<<r1.call, r2.call>>,
                                          LAMBDA c : c # NoCall),
                      !.emits = <<r1.emit, StatusNote(r1.playing),
                                  r2.emit, StatusNote(r2.playing)>>,
                      !.toggles = <<ToggleRecord(s0, r1),
                                    ToggleRecord(r1, r2)>>]
        /\ UNCHANGED <<currentAudio, progressBarInterval, songDuration,
                       elapsedTime, timers, percent, probed, treeVars>>

\* ---- the interval callback of startProgressBar --------------------------
\* a tick body that does not look at isPlaying
TickAdvances_ignoresPause(playing, d) == Positive(d)

\* does this firing advance the progress?
TickAdvances(playing, d) == playing /\ Positive(d)

\* percent = (elapsedTime / songDuration) * 100
PercentOf(e, d) == <<e * d[2] * 100, d[1]>>

\* clearInterval(progressBarInterval)
clearInterval(ts, id) == ts \ {id}

Tick(id) ==
    /\ id \in timers
    /\ elapsedTime < MaxElapsed
    /\ IF TickAdvances(isPlaying, songDuration)
       THEN /\ elapsedTime' = elapsedTime + 1
            /\ percent' = PercentOf(elapsedTime + 1, songDuration)
            /\ timers' = IF ReachedEnd(elapsedTime + 1, songDuration)
                         THEN clearInterval(timers, progressBarInterval)
                         ELSE timers
            /\ last' = [Last("tick") EXCEPT !.timer = id, !.pushed = TRUE]
       ELSE /\ UNCHANGED <<elapsedTime, percent, timers>>
            /\ last' = [Last("tick") EXCEPT !.timer = id]
    /\ UNCHANGED <<currentAudio, isPlaying, progressBarInterval,
                   songDuration, procs, recordbox, probed, treeVars>>

\* ---- the 'exit' listener that playSong put on child p -------------------
ProcExit(p, status) ==
    /\ p \in DOMAIN procs
    /\ Alive(procs, p)
    /\ procs[p].state = "stopped" => status = "signal"
    /\ procs' = [procs EXCEPT ![p].state = "exited"]
    /\ recordbox' = IF status # "code0"
                    THEN Note("Playback ended", procs[p].track)
                    ELSE recordbox
    /\ isPlaying' = FALSE
    /\ timers' = clearInterval(timers, progressBarInterval)
    /\ last' = [Last("exit") EXCEPT
                  !.pid = p, !.status = status, !.track = procs[p].track,
                  !.emits = IF status # "code0"
                            THEN <<Note("Playback ended", procs[p].track)>>
                            ELSE <<>>]
    /\ UNCHANGED <<currentAudio, progressBarInterval, songDuration,
                   elapsedTime, percent, probed, treeVars>>

Next ==
    \/ \E t \in Tracks, res \in SpawnResults, probe \in ProbeResults :
           PlaySong(t, res, probe)
    \/ KeyP
    \/ \E id \in timers : Tick(id)
    \/ \E p \in DOMAIN procs, status \in ExitStatuses : ProcExit(p, status)

Spec == Init /\ [][Next]_vars

\* ---- a player left alone ------------------------------------------------
\* The user never presses p and the player of the current session keeps
\* running: only a child that was superseded or sent SIGTERM exits.
LiveExit(p, status) ==
    /\ p \in DOMAIN procs
    /\ (p # currentAudio \/ procs[p].term)
    /\ ProcExit(p, status)

LiveNext ==
    \/ \E t \in Tracks, res \in SpawnResults, probe \in ProbeResults :
           PlaySong(t, res, probe)
    \/ \E id \in timers : Tick(id)
    \/ \E p \in DOMAIN procs, status \in ExitStatuses : LiveExit(p, status)

\* an interval that is alive keeps firing; a child sent SIGTERM exits
LiveSpec ==
    /\ Init
    /\ [][LiveNext]_vars
    /\ WF_vars(\E id \in timers : Tick(id))
    /\ WF_vars(\E p \in DOMAIN procs : LiveExit(p, "signal"))

\* ======================= fetchMusic: the library tree ===================
\* A path is the sequence of its components; <<>> is a missing value.
\* A string field that is missing (or empty: both are falsy) is "".
MaxLen == 3        \* entries in the list the server answers with

\* path.basename
basename(p) == p[Len(p)]

TrackItem(f, a, al, ti) ==
    [file |-> f, meta |-> TRUE, artist |-> a, album |-> al, title |-> ti,
     type |-> "", name |-> <<>>]

DirItem(n) ==
    [file |-> <<>>, meta |-> FALSE, artist |-> "", album |-> "", title |-> "",
     type |-> "directory", name |-> n]

\* entries the server may send
Items ==
    { TrackItem(<<"m", "a.mp3">>, "X", "Y", "Z"),
      TrackItem(<<"m", "b.mp3">>, "X", "Y", "Z"),
      TrackItem(<<"n", "a.mp3">>, "X", "", ""),
      TrackItem(<<"m", "c.mp3">>, "", "", ""),
      TrackItem(<<"m", "d.mp3">>, "constructor", "Y", "Z"),
      DirItem(<<"m", "X">>),
      DirItem(<<"Live">>),
      DirItem(<<>>),
      \* a file without metadata, metadata without a file, an unknown type
      [TrackItem(<<"m", "a.mp3">>, "", "", "") EXCEPT !.meta = FALSE],
      TrackItem(<<>>, "X", "Y", "Z"),
      [DirItem(<<"m", "X">>) EXCEPT !.type = "file"] }

Lists == UNION {[1..n -> Items] : n \in 0..MaxLen}

\* property names every plain object inherits from Object.prototype: a read
\* of such a key is truthy although the key was never inserted
Inherited == {"constructor"}

Truthy(m, k) == k \in DOMAIN m \/ k \in Inherited

\* m[k] = v
Put(m, k, v) == (k :> v) @@ m

IsTrack(item) == item.file # <<>> /\ item.meta

IsDirectory(item) == ~IsTrack(item) /\ item.type = "directory"

artistOf(item) ==
    IF item.artist # "" THEN item.artist ELSE "Unknown Artist"

albumOf(item) ==
    IF item.album # "" THEN item.album ELSE "Unknown Album"

\* a title default that takes the directory instead of the base name
titleOf_dirname(item) ==
    IF item.title # "" THEN item.title ELSE item.file[1]

titleOf(item) ==
    IF item.title # "" THEN item.title ELSE basename(item.file)

GroupNode(n) == [name |-> n, extended |-> "false", children |-> <<>>]

DirNode(n) == [name |-> n, extended |-> "absent", children |-> <<>>]

TrackNode(ti, f) == [name |-> ti, file |-> f]

Threw == [threw |-> TRUE, children |-> <<>>]

Built(m) == [threw |-> FALSE, children |-> m]

\* if (!album.children[title]) album.children[title] = {name, file}
insertTrack(tracks, ti, f) ==
    IF Truthy(tracks, ti) THEN tracks ELSE Put(tracks, ti, TrackNode(ti, f))

\* the track branch of the forEach body on musicdata.children = md
addTrack(md, item) ==
    LET a == artistOf(item)
        al == albumOf(item)
        ti == titleOf(item)
        md1 == IF Truthy(md, a) THEN md ELSE Put(md, a, GroupNode(a))
    IN  IF a \notin DOMAIN md1 THEN Threw
        ELSE LET albums == md1[a].children
                 albums1 == IF Truthy(albums, al) THEN albums
                            ELSE Put(albums, al, GroupNode(al))
             IN  IF al \notin DOMAIN albums1 THEN Threw
                 ELSE Built([md1 EXCEPT ![a].children =
                               [albums1 EXCEPT ![al].children =
                                  insertTrack(albums1[al].children, ti,
                                              item.file)]])

\* the directory branch: path.basename(undefined) throws
addDirectory(md, item) ==
    IF item.name = <<>> THEN Threw
    ELSE Built(Put(md, basename(item.name), DirNode(basename(item.name))))

\* a forEach body that raises on an entry of neither shape
forEachItem_rejectsUnknown(md, item) ==
    IF IsTrack(item) THEN addTrack(md, item)
    ELSE IF IsDirectory(item) THEN addDirectory(md, item)
    ELSE Threw

\* one run of the forEach callback
forEachItem(md, item) ==
    IF IsTrack(item) THEN addTrack(md, item)
    ELSE IF IsDirectory(item) THEN addDirectory(md, item)
    ELSE Built(md)

\* data.forEach(...) from entry i on; an exception ends it
RECURSIVE forEachFrom(_, _, _)
forEachFrom(md, list, i) ==
    IF i > Len(list) THEN Built(md)
    ELSE LET r == forEachItem(md, list[i])
         IN  IF r.threw THEN r ELSE forEachFrom(r.children, list, i + 1)

buildTree(list) == forEachFrom(<<>>, list, 1)

TreeInit ==
    /\ currentAudio = 0
    /\ isPlaying = FALSE
    /\ progressBarInterval = 0
    /\ songDuration = <<0, 1>>
    /\ elapsedTime = 0
    /\ procs = <<>>
    /\ timers = {}
    /\ percent = <<0, 1>>
    /\ recordbox = Note("albumInfo", "")
    /\ probed = TRUE
    /\ last = Last("init")
    /\ data \in Lists
    /\ treeData = <<>>
    /\ fetched = "pending"

\* fetchMusic once the response is there: build, then tree.setData, or the
\* catch that only logs
FetchMusic ==
    /\ fetched = "pending"
    /\ LET r == buildTree(data)
       IN  /\ fetched' = IF r.threw THEN "caught" ELSE "set"
           /\ treeData' = IF r.threw THEN treeData ELSE r.children
    /\ UNCHANGED <<data, playerVars>>

TreeNext == FetchMusic

TreeSpec == TreeInit /\ [][TreeNext]_vars

\* ======================= properties =====================================

\* C1: in every reachable state at most one tick timer created by
\* startProgressBar is alive.
C1_AtMostOneTimer == Cardinality(timers) <= 1

\* C2: once the player process of the current session has exited (any exit
\* status) the session is cleared: isPlaying is false, no handle is
\* retained, no tick timer is alive; and a following press of p finds no
\* session: each togglePlayPause emits "No audio playing", sends no signal
\* and leaves isPlaying false.
C2_SessionClearedOnExit ==
    /\ (last.op = "exit" /\ last.pid = currentAudio)
          => (~isPlaying /\ currentAudio = 0 /\ timers = {})
    /\ (last.op = "keyP" /\ currentAudio # 0
          /\ procs[currentAudio].state = "exited")
          => (/\ ~isPlaying
              /\ last.calls = <<>>
              /\ \A i \in 1..Len(last.toggles) :
                     last.toggles[i].emit = Note("No audio playing", ""))

\* C3: when playSong runs while currentAudio holds a handle and spawn hands
\* back a child, the kill of the previous child is issued before the spawn
\* of the new one (and a previous child still alive now has a termination
\* request), and the new session starts with elapsedTime = 0 and
\* isPlaying = true.
C3_KillBeforeSpawn ==
    [][(currentAudio # 0 /\ last'.op = "play" /\ last'.spawn # "throw")
         => (/\ last'.calls = <<KillCall(currentAudio, "SIGTERM"),
                                SpawnCall(currentAudio')>>
             /\ currentAudio' # currentAudio
             /\ Alive(procs, currentAudio) => procs'[currentAudio].term
             /\ elapsedTime' = 0
             /\ isPlaying')]_vars

\* a Play that superseded a live session whose progress had advanced
C3_Witness ==
    /\ last.op = "play" /\ last.spawn = "ok"
    /\ Len(last.calls) = 2
    /\ last.calls[1].fn = "kill"
    /\ Alive(procs, last.calls[1].pid) /\ procs[last.calls[1].pid].term
    /\ currentAudio = last.calls[2].pid
    /\ elapsedTime = 0 /\ isPlaying

\* C4: when the player fails to start (the child emits 'error'), Play emits
\* "Error playing: <name>" and leaves no active session: isPlaying is false
\* and no session handle remains.
C4_NoSessionAfterSpawnError ==
    (last.op = "play" /\ last.spawn = "error")
      => (/\ recordbox = Note("Error playing", last.track)
          /\ ~isPlaying
          /\ currentAudio = 0)

\* C5: a press of p while no session was ever started (currentAudio is
\* null) changes none of currentAudio, isPlaying, songDuration, elapsedTime,
\* the timers or the processes, sends no signal, and every togglePlayPause
\* call of the press emits "No audio playing" - also on repeated calls.
C5_ToggleWithoutSession ==
    [][(currentAudio = 0 /\ last'.op = "keyP")
         => (/\ UNCHANGED <<currentAudio, isPlaying, songDuration,
                            elapsedTime, timers, progressBarInterval,
                            procs, percent>>
             /\ last'.calls = <<>>
             /\ \A i \in 1..Len(last'.toggles) :
                    /\ last'.toggles[i].emit = Note("No audio playing", "")
                    /\ last'.toggles[i].call = NoCall
                    /\ last'.toggles[i].after = last'.toggles[i].before)]_vars

\* togglePlayPause has run twice in a row with no session
C5_Witness ==
    /\ last.op = "keyP"
    /\ currentAudio = 0
    /\ Len(last.toggles) = 2
    /\ last.toggles[2].emit = Note("No audio playing", "")
    /\ ~isPlaying

\* C6: a press of p while currentAudio holds a handle: every
\* togglePlayPause call flips isPlaying and sends the matching signal
\* (playing: SIGSTOP, isPlaying = false, "Paused"; paused: SIGCONT,
\* isPlaying = true, "Playing..."); elapsedTime, songDuration and the tick
\* timers are left unchanged, and the two consecutive calls restore the
\* original isPlaying.
C6_ToggleFlips ==
    [][(currentAudio # 0 /\ last'.op = "keyP")
         => (/\ Len(last'.toggles) = 2
             /\ last'.toggles[1].before = isPlaying
             /\ last'.toggles[2].before = last'.toggles[1].after
             /\ \A i \in 1..2 :
                    LET g == last'.toggles[i]
                    IN  /\ g.after = ~g.before
                        /\ g.call = KillCall(currentAudio,
                                       IF g.before THEN "SIGSTOP"
                                       ELSE "SIGCONT")
                        /\ g.emit = IF g.before THEN Note("Paused", "")
                                    ELSE Note("Playing...", "")
             /\ UNCHANGED <<elapsedTime, songDuration, timers,
                            progressBarInterval, currentAudio, percent>>
             /\ isPlaying' = isPlaying
             /\ Alive(procs, currentAudio)
                  => procs'[currentAudio].state =
                       (IF isPlaying THEN "running" ELSE "stopped"))]_vars

\* p was pressed on a playing session whose child is alive: first call
\* paused it, second call resumed it
C6_Witness ==
    /\ last.op = "keyP"
    /\ currentAudio # 0
    /\ Len(last.toggles) = 2
    /\ last.toggles[1].alive /\ last.toggles[1].before
    /\ last.toggles[1].call.sig = "SIGSTOP"
    /\ last.toggles[2].call.sig = "SIGCONT"
    /\ isPlaying
    /\ procs[currentAudio].state = "running"

\* C7: a tick changes elapsedTime only when isPlaying is true, and then by
\* exactly 1; while isPlaying is false (from a pause to the next resume)
\* elapsedTime is unchanged by whatever ticks, key presses or exits happen.
C7_ElapsedOnlyWhilePlaying ==
    [][/\ last'.op = "tick"
           => (elapsedTime' # elapsedTime
                 => (isPlaying /\ elapsedTime' = elapsedTime + 1))
       /\ (~isPlaying /\ last'.op # "play")
           => elapsedTime' = elapsedTime]_vars

\* a tick fired on a paused (stopped) session that had already advanced,
\* and left elapsedTime alone
C7_Witness ==
    /\ last.op = "tick" /\ ~last.pushed
    /\ last.timer \in timers
    /\ ~isPlaying
    /\ currentAudio # 0
    /\ procs[currentAudio].state = "stopped"
    /\ Positive(songDuration)
    /\ elapsedTime > 0

\* C8: once elapsedTime has reached songDuration (> 0) the ticking timer is
\* cancelled and elapsedTime is not incremented again until the next Play.
C8_NoTickAfterComplete ==
    [][/\ (last'.op = "tick" /\ Positive(songDuration')
            /\ ReachedEnd(elapsedTime', songDuration'))
           => last'.timer \notin timers'
       /\ (Positive(songDuration) /\ ReachedEnd(elapsedTime, songDuration)
            /\ last'.op # "play")
           => elapsedTime' = elapsedTime]_vars

Min100(p) == IF RatLeq(p, <<100, 1>>) THEN p ELSE <<100, 1>>

\* C9: every percent a tick pushes to the gauge equals
\* min(100, elapsedTime / songDuration * 100); it never exceeds 100.
C9_PercentClamped ==
    (last.op = "tick" /\ last.pushed)
      => (/\ RatEq(percent, Min100(PercentOf(elapsedTime, songDuration)))
          /\ RatLeq(percent, <<100, 1>>))

SameKey(x, y) ==
    /\ (IF x.artist = "" THEN "Unknown Artist" ELSE x.artist)
         = (IF y.artist = "" THEN "Unknown Artist" ELSE y.artist)
    /\ (IF x.album = "" THEN "Unknown Album" ELSE x.album)
         = (IF y.album = "" THEN "Unknown Album" ELSE y.album)
    /\ (IF x.title = "" THEN x.file[Len(x.file)] ELSE x.title)
         = (IF y.title = "" THEN y.file[Len(y.file)] ELSE y.title)

IsTrackRecord(x) == x.file # <<>> /\ x.meta

\* C11: when two or more track records resolve to the same artist, album
\* and title, the TrackNode the tree holds for them carries the file path of
\* the last such record in input order.
C11_LastWriteWins ==
    fetched = "set" =>
      \A i, j \in 1..Len(data) :
        (/\ i < j
         /\ IsTrackRecord(data[i]) /\ IsTrackRecord(data[j])
         /\ SameKey(data[i], data[j])
         /\ \A k \in (j + 1)..Len(data) :
               ~(IsTrackRecord(data[k]) /\ SameKey(data[k], data[j])))
        => LET a == IF data[j].artist = "" THEN "Unknown Artist"
                    ELSE data[j].artist
               al == IF data[j].album = "" THEN "Unknown Album"
                     ELSE data[j].album
               ti == IF data[j].title = "" THEN data[j].file[Len(data[j].file)]
                     ELSE data[j].title
           IN  (/\ a \in DOMAIN treeData
                /\ al \in DOMAIN treeData[a].children
                /\ ti \in DOMAIN treeData[a].children[al].children)
                 => treeData[a].children[al].children[ti].file = data[j].file

\* C12: every node made from a directory entry is top-level with an empty
\* children mapping in the final tree, and the Artist/Album/Track content
\* equals the content built from the list without its directory entries.
C12_DirectoriesApart ==
    fetched = "set" =>
      /\ \A i \in 1..Len(data) :
           (~IsTrackRecord(data[i]) /\ data[i].type = "directory")
             => LET n == data[i].name[Len(data[i].name)]
                IN  /\ n \in DOMAIN treeData
                    /\ treeData[n].children = <<>>
      /\ LET tracksOnly ==
                 buildTree(SelectSeq(data, LAMBDA x :
                     ~(~IsTrackRecord(x) /\ x.type = "directory")))
         IN  /\ ~tracksOnly.threw
             /\ \A a \in DOMAIN tracksOnly.children :
                   /\ a \in DOMAIN treeData
                   /\ treeData[a].children = tracksOnly.children[a].children

\* C13: every TrackNode of the built tree sits on one root/Artist/Album/
\* Track path whose three labels are the keys and the node names on it, and
\* they equal the resolved artist, album and title of a track record of the
\* input that carries the node's file ("Unknown Artist", "Unknown Album",
\* base filename for what is missing).
C13_TrackPaths ==
    fetched = "set" =>
      \A a \in DOMAIN treeData :
        /\ treeData[a].name = a
        /\ \A al \in DOMAIN treeData[a].children :
             /\ treeData[a].children[al].name = al
             /\ \A ti \in DOMAIN treeData[a].children[al].children :
                  LET t == treeData[a].children[al].children[ti]
                  IN  /\ t.name = ti
                      /\ \E i \in 1..Len(data) :
                           LET x == data[i]
                           IN  /\ IsTrackRecord(x)
                               /\ x.file = t.file
                               /\ a = (IF x.artist = "" THEN "Unknown Artist"
                                       ELSE x.artist)
                               /\ al = (IF x.album = "" THEN "Unknown Album"
                                        ELSE x.album)
                               /\ ti = (IF x.title = ""
                                        THEN x.file[Len(x.file)]
                                        ELSE x.title)

\* a tree with a fully labelled track and a track placed by all three defaults
C13_Witness ==
    /\ fetched = "set"
    /\ "X" \in DOMAIN treeData
    /\ "Y" \in DOMAIN treeData["X"].children
    /\ "Z" \in DOMAIN treeData["X"].children["Y"].children
    /\ "Unknown Artist" \in DOMAIN treeData
    /\ "Unknown Album" \in DOMAIN treeData["Unknown Artist"].children
    /\ "c.mp3" \in DOMAIN
          treeData["Unknown Artist"].children["Unknown Album"].children

\* an entry that is neither a track nor a directory
IsSkipped(x) == ~IsTrackRecord(x) /\ x.type # "directory"

\* C14: entries that are neither a track nor a directory are skipped without
\* an error: fetchMusic ends as it does on the list without them, and the
\* tree it sets is the tree of that list.
C14_UnknownEntriesSkipped ==
    fetched # "pending" =>
      LET r == buildTree(SelectSeq(data, LAMBDA x : ~IsSkipped(x)))
      IN  /\ (fetched = "caught") = r.threw
          /\ fetched = "set" => treeData = r.children

\* a skipped entry stood before a track and a directory that made it into
\* the tree
C14_Witness ==
    /\ fetched = "set"
    /\ Len(data) = 3
    /\ IsSkipped(data[1])
    /\ IsTrackRecord(data[2])
    /\ data[3].type = "directory" /\ data[3].name = <<"Live">>
    /\ "Live" \in DOMAIN treeData
    /\ Cardinality(DOMAIN treeData) = 2

\* ---- properties of the player, continued ---------------------------------
\* C15 (LiveSpec): after a Play whose player runs and whose duration is
\* greater than 0, whether or not it superseded an active session, with the
\* player left running and no pause, elapsedTime eventually reaches
\* songDuration (or the session is replaced or sent SIGTERM by a later Play).
C15_ProgressCompletes ==
    \A p \in 1..MaxPlays :
      (/\ currentAudio = p
       /\ procs[p].state = "running" /\ ~procs[p].term
       /\ Positive(songDuration))
        ~> (\/ ReachedEnd(elapsedTime, songDuration)
            \/ currentAudio # p
            \/ procs[p].term)

\* C16: between callbacks isPlaying is true exactly when the player of the
\* current session (one that was started) is alive and not suspended, and
\* the exit of a superseded player does not change isPlaying.
C16_IsPlayingTracksProcess ==
    [][/\ currentAudio' = 0 => ~isPlaying'
       /\ (currentAudio' # 0 /\ procs'[currentAudio'].state # "failed")
            => (isPlaying' = (procs'[currentAudio'].state = "running"))
       /\ (last'.op = "exit" /\ last'.pid # currentAudio)
            => isPlaying' = isPlaying]_vars

\* C17: one press of p on a session whose player is alive runs exactly one
\* toggle: playing ends paused (one SIGSTOP, "Paused"), paused ends playing
\* (one SIGCONT, "Playing...").
C17_OneTogglePerPress ==
    [][(/\ currentAudio # 0
        /\ Alive(procs, currentAudio)
        /\ last'.op = "keyP")
         => (/\ Len(last'.toggles) = 1
             /\ isPlaying' = ~isPlaying
             /\ last'.calls =
                  <<[fn |-> "kill", pid |-> currentAudio,
                     sig |-> IF isPlaying THEN "SIGSTOP" ELSE "SIGCONT"]>>
             /\ recordbox' =
                  [kind |-> IF isPlaying THEN "Paused" ELSE "Playing...",
                   track |-> ""])]_vars

\* C18: once Play(B) has superseded session A, the events of A emit no
\* notification: the exit of a superseded player leaves the record box as
\* it is.
C18_NoNoteFromSuperseded ==
    [][(last'.op = "exit" /\ last'.pid # currentAudio)
         => (last'.emits = <<>> /\ recordbox' = recordbox)]_vars
====
